---- MODULE Spec2Model ----
(***************************************************************************)
(* Model of src/index.ts: the Mpv() session.  One session owns a player    *)
(* subprocess, one socket, the request counter, the outbound queue, the    *)
(* pending-request map and the observation registry.  Every action is one  *)
(* run-to-completion callback of the single-threaded event loop.           *)
(***************************************************************************)
EXTENDS Naturals, Sequences, FiniteSets

\* ---------------------------------------------------------------- bounds
MaxRequests == 2      \* command() calls explored per session
MaxErrors == 1        \* "error" notifications explored per session
MaxLines == 4         \* lines of one inbound chunk

Keys == {"volume"}
Callbacks == {"cb1", "cb2"}
Data == {0, 1}
Success == "success"
ErrorTexts == {Success, "property not found"}
Malformed == "{"      \* a line JSON.parse rejects
Lines == {"", Malformed, "f1", "f2"}   \* "": an empty segment; f1, f2: JSON objects

\* ----------------------------------------------------------------- state
VARIABLES
  status,      \* mpv.status
  returned,    \* outcome of the Mpv() promise: "pending" | "resolved" | "rejected"
  proc,        \* mpv.process and what the model needs of the ChildProcess
  sock,        \* socket.readyState
  conn,        \* the connect() closure: listeners attached, retry timer, error, clock
  startWait,   \* start() is suspended on its promise (line 154)
  startEmit,   \* the `emit` argument of the suspended start()
  startErr,    \* what start() threw: "none" | "closed" | "process" | "connect"
  connEnd,     \* how connect() settled: "none" | "pending" | "resolved" | "error" | "timeout"
  orphans,     \* subprocesses still running that mpv.process no longer holds
  requestId,   \* let requestId
  observeId,   \* let observeId
  queue,       \* let queue: Request[]
  requests,    \* const requests: Map<number, Request>, in insertion order
  observers,   \* const observers = new Map(): key -> {id, fns}
  obsThen,     \* the .then continuations registered by observe() (line 217)
  handles,     \* one entry per command() call: the promise it returned
  written,     \* every message handed to socket.write, in order
  obsCall,     \* per (key, callback): what the observe() call returned
  unsub,       \* per (key, callback): was unsubscribe called, did its last call throw
  cbLog,       \* the callbacks invoked by the last property-change event
  nErr,        \* mpv.emit("error", ...) calls
  nRestarted,  \* mpv.emit("restarted") calls
  spawned,     \* cp.spawn calls
  closes,      \* runs of the close listener of line 167
  killCalls,   \* kill signals delivered by mpv.process.kill()
  ended,       \* end() has been called
  chunk,       \* the last chunk data() was called with, split on /\r?\n/
  dispatched   \* the lines of it handle() was called with, in order

lifeVars == <<status, returned, proc, sock, conn, startWait, startEmit, startErr,
              connEnd, orphans, nRestarted, spawned, closes, killCalls, ended>>
reqVars == <<requestId, queue, requests, handles, written>>
obsVars == <<observeId, observers, obsThen, obsCall, unsub>>
dataVars == <<chunk, dispatched>>
vars == <<lifeVars, reqVars, obsVars, cbLog, nErr, dataVars>>

NoProc == [exists |-> FALSE, alive |-> FALSE, killed |-> FALSE, listeners |-> {}]
NoConn == [active |-> FALSE, timer |-> FALSE, error |-> FALSE, expired |-> FALSE]
Pairs == Keys \X Callbacks

Init ==
  /\ status = "stopped"
  /\ returned = "pending"
  /\ proc = NoProc
  /\ sock = "closed"
  /\ conn = NoConn
  /\ startWait = FALSE
  /\ startEmit = FALSE
  /\ startErr = "none"
  /\ connEnd = "none"
  /\ orphans = 0
  /\ requestId = 0
  /\ observeId = 0
  /\ queue = <<>>
  /\ requests = <<>>
  /\ observers = <<>>
  /\ obsThen = {}
  /\ handles = <<>>
  /\ written = <<>>
  /\ obsCall = [p \in Pairs |-> [st |-> "none", h |-> 0]]
  /\ unsub = [p \in Pairs |-> [called |-> FALSE, threw |-> FALSE]]
  /\ cbLog = [name |-> "", data |-> 0, fns |-> {}]
  /\ nErr = 0
  /\ nRestarted = 0
  /\ spawned = 0
  /\ closes = 0
  /\ killCalls = 0
  /\ ended = FALSE
  /\ chunk = <<>>
  /\ dispatched = <<>>

\* ------------------------------------------------- the request correlator
\* The closure variables command(), write() and ready() share, as one value.
Cur ==
  [requestId |-> requestId, queue |-> queue, requests |-> requests,
   handles |-> handles, written |-> written]

SetReq(R) ==
  /\ requestId' = R.requestId
  /\ queue' = R.queue
  /\ requests' = R.requests
  /\ handles' = R.handles
  /\ written' = R.written

\* Map.prototype.has / get / set / delete on a Map kept in insertion order.
MapHas(m, k) == \E i \in 1..Len(m) : m[i].id = k
MapGet(m, k) == m[CHOOSE i \in 1..Len(m) : m[i].id = k]
MapSet(m, v) ==
  IF MapHas(m, v.id)
    THEN [i \in 1..Len(m) |-> IF m[i].id = v.id THEN v ELSE m[i]]
    ELSE Append(m, v)
\* A delete that removes nothing.
MapDelete_Keep(m, k) == m

MapDelete(m, k) == SelectSeq(m, LAMBDA v : v.id # k)

ObsHas(k) == \E i \in 1..Len(observers) : observers[i].key = k
ObsGet(k) == observers[CHOOSE i \in 1..Len(observers) : observers[i].key = k]
ObsSet(m, e) ==
  IF \E i \in 1..Len(m) : m[i].key = e.key
    THEN [i \in 1..Len(m) |-> IF m[i].key = e.key THEN e ELSE m[i]]
    ELSE Append(m, e)

\* A delete that leaves the entry in the registry.
ObsDelete_Keep(m, k) == m

ObsDelete(m, k) == SelectSeq(m, LAMBDA e : e.key # k)

\* A counter that is read but not advanced once it has left 0.
NextRequestId_Stuck(n) == IF n = 0 THEN 1 ELSE n

\* const id = ++requestId
NextRequestId(n) == n + 1

\* A write() that sends the message and forgets the request.
Write_Unrecorded(R, request) ==
  [R EXCEPT !.written = Append(@, [id |-> request.id, args |-> request.args])]

\* write(request): socket.write(request.message); requests.set(request.id, request)
Write(R, request) ==
  [R EXCEPT !.written = Append(@, [id |-> request.id, args |-> request.args]),
            !.requests = MapSet(@, request)]

\* command(...args): a new promise, a new request, written or queued.
Command(R, open, args) ==
  LET id == NextRequestId(R.requestId)
      h == Len(R.handles) + 1
      request == [id |-> id, args |-> args, h |-> h]
      R1 == [R EXCEPT !.requestId = id,
                      !.handles = Append(@, [id |-> id, args |-> args, st |-> "pending",
                                             data |-> 0, err |-> "", n |-> 0])]
  IN IF open THEN Write(R1, request)
             ELSE [R1 EXCEPT !.queue = Append(@, request)]

RECURSIVE WriteAll(_, _)
WriteAll(R, rs) ==
  IF rs = <<>> THEN R ELSE WriteAll(Write(R, Head(rs)), Tail(rs))

RECURSIVE ObserveAll(_, _, _)
ObserveAll(R, open, es) ==
  IF es = <<>> THEN R
  ELSE ObserveAll(
         Command(R, open, [cmd |-> "observe_property", id |-> Head(es).id, key |-> Head(es).key]),
         open, Tail(es))

\* ready(): re-issue the observations, write the pending map, flush the queue.
Ready(R, open, obs) ==
  LET R1 == ObserveAll(R, open, obs)
      R2 == WriteAll(R1, R1.requests)
      R3 == WriteAll(R2, R2.queue)
  IN [R3 EXCEPT !.queue = <<>>]

\* ------------------------------------------------------ process supervisor
\* A kill() that does not look at `killed`.
KillSends_Again(p) == p.exists /\ p.alive

\* kill(): mpv.process && !mpv.process.killed && mpv.process.kill()
\* ChildProcess.kill() delivers the signal, and sets `killed`, only to a process
\* that has not exited.
KillSends(p) == p.exists /\ ~p.killed /\ p.alive
Kill(p) == IF KillSends(p) THEN [p EXCEPT !.killed = TRUE] ELSE p

\* end(): nothing without a process; else removeAllListeners(), kill(), unref()
EndProc(p) == IF ~p.exists THEN p ELSE Kill([p EXCEPT !.listeners = {}])
EndKills(p) == IF p.exists /\ KillSends(p) THEN 1 ELSE 0

\* The status the close listener of line 167 stores before it calls start(true).
CloseStatus == "started"

\* A start() that runs whatever the status.
StartRuns_Always(st) == TRUE

\* if (mpv.status !== "stopped") return
StartRuns(st) == st = "stopped"

\* start(emit) up to its await, entered with mpv.status = st and mpv.process = p:
\* the guard, status = starting, end() of a held process, spawn, connect().
StartFrom(st, p, emit) ==
  IF ~StartRuns(st)
    THEN /\ status' = st
         /\ proc' = p
         /\ UNCHANGED <<sock, conn, startWait, startEmit, startErr, connEnd, orphans,
                        spawned, killCalls>>
    ELSE /\ status' = "starting"
         /\ killCalls' = killCalls + EndKills(p)
         /\ orphans' = IF p.exists /\ p.alive THEN orphans + 1 ELSE orphans
         /\ startErr' = "none"
         /\ connEnd' = "pending"
         /\ proc' = [exists |-> TRUE, alive |-> TRUE, killed |-> FALSE,
                     listeners |-> {"start"}]
         /\ spawned' = spawned + 1
         /\ conn' = [active |-> TRUE, timer |-> FALSE, error |-> FALSE, expired |-> FALSE]
         /\ sock' = "opening"
         /\ startWait' = TRUE
         /\ startEmit' = emit

\* A start() that announces every success.
EmitsRestarted_Always(emit) == TRUE

\* emit && mpv.emit("restarted")
EmitsRestarted(emit) == emit

\* start() after its await resolved: ready(), status, "restarted", the close listener.
SucceedStart ==
  /\ SetReq(Ready(Cur, TRUE, observers))
  /\ status' = "started"
  /\ nRestarted' = IF EmitsRestarted(startEmit) THEN nRestarted + 1 ELSE nRestarted
  /\ proc' = [proc EXCEPT !.listeners = @ \cup {"restart"}]
  /\ startWait' = FALSE
  /\ returned' = IF returned = "pending" THEN "resolved" ELSE returned

\* start() after its await rejected with err: the catch block rethrows err; the
\* caller is Mpv() for the first start and the close listener's .catch (an "error"
\* notification) later.  err is "closed" for the Error of line 156 (stderr or
\* "closed" as message, with code and signal), "process" for the error the
\* subprocess emitted, passed on as it is (line 155), and "connect" for the
\* rejection of connect().
FailStart(err) ==
  /\ status' = "errored"
  /\ startErr' = err
  /\ startWait' = FALSE
  /\ returned' = IF returned = "pending" THEN "rejected" ELSE returned
  /\ nErr' = IF startEmit THEN nErr + 1 ELSE nErr

\* await start() in Mpv()
MpvStart ==
  /\ UNCHANGED dataVars
  /\ returned = "pending"
  /\ status = "stopped"
  /\ StartFrom(status, proc, FALSE)
  /\ UNCHANGED <<returned, nRestarted, closes, ended, reqVars, obsVars, cbLog, nErr>>

\* the subprocess emits "error" while start() waits (spawn failed, or a signal
\* could not be delivered); gone: the subprocess is not running afterwards
ProcError(gone) ==
  /\ UNCHANGED dataVars
  /\ proc.exists
  /\ "start" \in proc.listeners
  /\ startWait
  /\ proc' = IF gone THEN [proc EXCEPT !.alive = FALSE] ELSE proc
  /\ FailStart("process")
  /\ UNCHANGED <<sock, conn, startEmit, connEnd, orphans, nRestarted, spawned, closes,
                 killCalls, ended, reqVars, obsVars, cbLog>>

\* the clock passes connectStart + timeout
Tick ==
  /\ UNCHANGED dataVars
  /\ conn.active
  /\ ~conn.expired
  /\ conn' = [conn EXCEPT !.expired = TRUE]
  /\ UNCHANGED <<status, returned, proc, sock, startWait, startEmit, startErr, connEnd,
                 orphans, nRestarted, spawned, closes, killCalls, ended, reqVars, obsVars,
                 cbLog, nErr>>

\* socket "ready": connect() resolves, and with it the suspended start()
SocketReady ==
  /\ UNCHANGED dataVars
  /\ sock = "opening"
  /\ proc.alive
  /\ sock' = "open"
  /\ conn' = NoConn
  /\ connEnd' = IF conn.active THEN "resolved" ELSE connEnd
  /\ IF conn.active /\ startWait
       THEN /\ SucceedStart
            /\ UNCHANGED <<startEmit, startErr, orphans, spawned, closes, killCalls, ended,
                           obsVars, cbLog, nErr>>
       ELSE UNCHANGED <<status, returned, proc, startWait, startEmit, startErr, orphans,
                        nRestarted, spawned, closes, killCalls, ended, reqVars, obsVars,
                        cbLog, nErr>>

\* process.hrtime.bigint() / 1000000n - connectStart > timeout
TimedOut(c) == c.expired

\* A rejection that never carries the socket error.
ConnectReject_Generic(err) == "timeout"

\* reject(error || new Error("Timed out"))
ConnectReject(err) == IF err THEN "error" ELSE "timeout"

\* a connection attempt fails: socket "error" (when e) and then "close";
\* error() of line 134 and, while connect() listens, errored() and close()
SocketFail(e) ==
  /\ UNCHANGED dataVars
  /\ sock = "opening"
  /\ sock' = "closed"
  /\ LET p == IF e /\ status = "started" THEN Kill(proc) ELSE proc
         k == IF e /\ status = "started" /\ KillSends(proc) THEN 1 ELSE 0
         err == conn.error \/ e
     IN /\ killCalls' = killCalls + k
        /\ proc' = p
        /\ IF ~conn.active
             THEN UNCHANGED <<conn, connEnd, status, returned, startWait, startErr, nErr>>
             ELSE IF TimedOut(conn)
               THEN /\ conn' = NoConn
                    /\ connEnd' = ConnectReject(err)
                    /\ IF startWait
                         THEN FailStart("connect")
                         ELSE UNCHANGED <<status, returned, startWait, startErr, nErr>>
               ELSE /\ conn' = [conn EXCEPT !.timer = TRUE, !.error = err]
                    /\ UNCHANGED <<connEnd, status, returned, startWait, startErr, nErr>>
  /\ UNCHANGED <<startEmit, orphans, nRestarted, spawned, closes, ended, reqVars, obsVars,
                 cbLog>>

\* setTimeout(() => socket.connect(socketPath), 20)
RetryTimer ==
  /\ UNCHANGED dataVars
  /\ conn.timer
  /\ conn' = [conn EXCEPT !.timer = FALSE]
  /\ sock' = "opening"
  /\ UNCHANGED <<status, returned, proc, startWait, startEmit, startErr, connEnd, orphans,
                 nRestarted, spawned, closes, killCalls, ended, reqVars, obsVars, cbLog,
                 nErr>>

\* the established connection is lost: socket "error" (when e), then "close"
SocketDrop(e) ==
  /\ UNCHANGED dataVars
  /\ sock = "open"
  /\ sock' = "closed"
  /\ proc' = IF e /\ status = "started" THEN Kill(proc) ELSE proc
  /\ killCalls' = killCalls + (IF e /\ status = "started" /\ KillSends(proc) THEN 1 ELSE 0)
  /\ UNCHANGED <<status, returned, conn, startWait, startEmit, startErr, connEnd, orphans,
                 nRestarted, spawned, closes, ended, reqVars, obsVars, cbLog, nErr>>

\* the subprocess exits: its "close" event runs the listeners still attached
ProcClose ==
  /\ UNCHANGED dataVars
  /\ proc.exists
  /\ proc.alive
  /\ LET p == [proc EXCEPT !.alive = FALSE, !.listeners = @ \ {"start"}]
     IN IF "restart" \in proc.listeners
          THEN /\ closes' = closes + 1
               /\ StartFrom(CloseStatus, p, TRUE)
               /\ UNCHANGED <<returned, nErr>>
          ELSE /\ proc' = p
               /\ IF "start" \in proc.listeners /\ startWait
                    THEN FailStart("closed")
                    ELSE UNCHANGED <<status, returned, startWait, startErr, nErr>>
               /\ UNCHANGED <<sock, conn, startEmit, connEnd, orphans, spawned, closes,
                              killCalls>>
  /\ UNCHANGED <<nRestarted, ended, reqVars, obsVars, cbLog>>

\* mpv.end(), called by the holder of the session Mpv() returned
End ==
  /\ UNCHANGED dataVars
  /\ returned = "resolved"
  /\ proc' = EndProc(proc)
  /\ killCalls' = killCalls + EndKills(proc)
  /\ ended' = TRUE
  /\ UNCHANGED <<status, returned, sock, conn, startWait, startEmit, startErr, connEnd,
                 orphans, nRestarted, spawned, closes, reqVars, obsVars, cbLog, nErr>>

\* ------------------------------------------------------------ the session
\* socket.readyState === "open"
SocketOpen == sock = "open"

\* mpv.command / mpv.get: one caller-issued command
UserCommand ==
  /\ UNCHANGED dataVars
  /\ returned = "resolved"
  /\ requestId < MaxRequests
  /\ SetReq(Command(Cur, SocketOpen, [cmd |-> "get_property", id |-> 0, key |-> "volume"]))
  /\ UNCHANGED <<lifeVars, obsVars, cbLog, nErr>>

\* observers[x]: the promise the last observe(x, _) stored, by its handle
ObsPromise(k) ==
  LET hs == {t.h : t \in {u \in obsThen : u.key = k}}
  IN CHOOSE h \in hs : \A g \in hs : g <= h

\* const id = ++observeId
NextObserveId(n) == n + 1

\* observe(x, fn).  With an entry for x it awaits observers[x], whose value is the
\* reply's data and never an entry, so `observer.fns.add` throws and the call
\* rejects (at once, or when the awaited promise settles).  Without an entry it
\* allocates an id, issues observe_property and returns the unsubscribe function.
\* Each (key, callback) pair calls observe at most once.
Observe(k, cb) ==
  /\ UNCHANGED dataVars
  /\ returned = "resolved"
  /\ obsCall[<<k, cb>>].st = "none"
  /\ IF ObsHas(k)
       THEN /\ obsCall' = [obsCall EXCEPT ![<<k, cb>>] =
                 IF handles[ObsPromise(k)].st = "pending"
                   THEN [st |-> "awaiting", h |-> ObsPromise(k)]
                   ELSE [st |-> "rejected", h |-> 0]]
            /\ UNCHANGED <<reqVars, observeId, observers, obsThen, unsub>>
       ELSE /\ requestId < MaxRequests
            /\ LET id == NextObserveId(observeId)
                   R == Command(Cur, SocketOpen,
                                [cmd |-> "observe_property", id |-> id, key |-> k])
               IN /\ observeId' = id
                  /\ SetReq(R)
                  /\ obsThen' = obsThen \cup
                       {[h |-> Len(R.handles), key |-> k, id |-> id, fn |-> cb]}
            /\ obsCall' = [obsCall EXCEPT ![<<k, cb>>] = [st |-> "held", h |-> 0]]
            /\ UNCHANGED <<observers, unsub>>
  /\ UNCHANGED <<lifeVars, cbLog, nErr>>

\* the function observe() returned: unobserve(x, fn).  Without an entry for x
\* `observer.fns` throws a TypeError and the call rejects.
Unsubscribe(k, cb) ==
  /\ UNCHANGED dataVars
  /\ returned = "resolved"
  /\ obsCall[<<k, cb>>].st = "held"
  /\ IF ~ObsHas(k)
       THEN /\ unsub' = [unsub EXCEPT ![<<k, cb>>] =
                           [called |-> TRUE, threw |-> TRUE]]
            /\ UNCHANGED <<reqVars, observers>>
       ELSE /\ unsub' = [unsub EXCEPT ![<<k, cb>>] =
                           [called |-> TRUE, threw |-> FALSE]]
            /\ LET observer == ObsGet(k)
                   fns == observer.fns \ {cb}
               IN IF fns = {}
                    THEN /\ requestId < MaxRequests
                         /\ observers' = ObsDelete(observers, k)
                         /\ SetReq(Command(Cur, SocketOpen,
                              [cmd |-> "unobserve_property", id |-> observer.id, key |-> ""]))
                    ELSE /\ observers' = ObsSet(observers, [observer EXCEPT !.fns = fns])
                         /\ UNCHANGED reqVars
  /\ UNCHANGED <<lifeVars, observeId, obsThen, obsCall, cbLog, nErr>>

\* ----------------------------------------------------------- inbound frames
\* The player reports changes of the properties it was asked to observe.
Observed(name) ==
  \E i \in 1..Len(written) :
    written[i].args.cmd = "observe_property" /\ written[i].args.key = name

\* handle(x) for {"event": "property-change", name, data}
HandleEvent(name, d) ==
  /\ UNCHANGED dataVars
  /\ sock = "open"
  /\ Observed(name)
  /\ cbLog' = [name |-> name, data |-> d,
               fns |-> IF ObsHas(name) THEN ObsGet(name).fns ELSE {}]
  /\ UNCHANGED <<lifeVars, reqVars, obsVars, nErr>>

\* request.resolve / request.reject on the promise of handle h
Settle(hs, h, st, d, e) ==
  LET p == hs[h]
  IN [hs EXCEPT ![h] = IF p.st = "pending"
                         THEN [p EXCEPT !.st = st, !.data = d, !.err = e, !.n = p.n + 1]
                         ELSE [p EXCEPT !.n = p.n + 1]]

\* the .then of line 217, for the continuations waiting on handle h
RunThen(obs, h) ==
  LET ts == {t \in obsThen : t.h = h}
  IN IF ts = {} THEN obs
     ELSE LET t == CHOOSE u \in ts : TRUE
          IN ObsSet(obs, [key |-> t.key, id |-> t.id, fns |-> {t.fn}])

\* An emission that does not look at the error text.
UnmatchedEmits_Always(e) == TRUE

\* Does a reply with this error text to an unmatched id emit "error"?
UnmatchedEmits(e) == e # Success

\* handle(x) for {"request_id": rid, "error": e, "data": d}
HandleReply(rid, e, d) ==
  /\ UNCHANGED dataVars
  /\ sock = "open"
  /\ IF ~MapHas(requests, rid)
       THEN /\ UnmatchedEmits(e) => nErr < MaxErrors
            /\ nErr' = IF UnmatchedEmits(e) THEN nErr + 1 ELSE nErr
            /\ UNCHANGED <<reqVars, obsVars>>
       ELSE LET request == MapGet(requests, rid)
                first == handles[request.h].st = "pending"
                caught == e # Success /\ first /\ request.args.cmd = "unobserve_property"
            IN /\ caught => nErr < MaxErrors
               /\ requests' = MapDelete(requests, rid)
               /\ handles' = IF e = Success
                               THEN Settle(handles, request.h, "resolved", d, "")
                               ELSE Settle(handles, request.h, "rejected", 0, e)
               /\ observers' = IF e = Success /\ first
                                 THEN RunThen(observers, request.h) ELSE observers
               /\ obsCall' = [p \in Pairs |->
                    IF obsCall[p].st = "awaiting" /\ obsCall[p].h = request.h /\ first
                      THEN [st |-> "rejected", h |-> 0] ELSE obsCall[p]]
               /\ nErr' = IF caught THEN nErr + 1 ELSE nErr
               /\ UNCHANGED <<requestId, queue, written, observeId, obsThen, unsub>>
  /\ UNCHANGED <<lifeVars, cbLog>>

\* ------------------------------------------------------- inbound chunks
\* x.split(/\r?\n/g).filter((x) => x).map((x) => JSON.parse(x.trim())).forEach(handle):
\* every line is parsed before the first is handled, so one line JSON.parse
\* rejects makes data() throw with nothing handled.
DataFrames(x) ==
  LET ls == SelectSeq(x, LAMBDA l : l # "")
  IN IF \E i \in 1..Len(ls) : ls[i] = Malformed THEN <<>> ELSE ls

RECURSIVE SeqsUpTo(_)
SeqsUpTo(n) ==
  IF n = 0 THEN {<<>>}
  ELSE SeqsUpTo(n - 1) \cup {Append(c, l) : c \in {q \in SeqsUpTo(n - 1) : Len(q) = n - 1}, l \in Lines}

\* data(x)
DataCall(x) ==
  /\ chunk' = x
  /\ dispatched' = DataFrames(x)
  /\ UNCHANGED <<lifeVars, reqVars, obsVars, cbLog, nErr>>

DataNext == \E x \in SeqsUpTo(MaxLines) : DataCall(x)

\* data() on its own: what it hands to handle(), chunk after chunk.
DataSpec == Init /\ [][DataNext]_vars

Next ==
  \/ MpvStart
  \/ \E gone \in BOOLEAN : ProcError(gone)
  \/ Tick
  \/ SocketReady
  \/ \E e \in BOOLEAN : SocketFail(e)
  \/ RetryTimer
  \/ \E e \in BOOLEAN : SocketDrop(e)
  \/ ProcClose
  \/ End
  \/ UserCommand
  \/ \E k \in Keys, cb \in Callbacks : Observe(k, cb)
  \/ \E k \in Keys, cb \in Callbacks : Unsubscribe(k, cb)
  \/ \E k \in Keys, d \in Data : HandleEvent(k, d)
  \/ \E rid \in 1..(MaxRequests + 1), e \in ErrorTexts, d \in Data : HandleReply(rid, e, d)

Spec == Init /\ [][Next]_vars

\* The event loop runs every due timer and every connection attempt ends (the
\* socket becomes ready or closes); the clock advances.  Nothing obliges the
\* caller or the player to act.
FairSpec ==
  /\ Spec
  /\ WF_vars(RetryTimer)
  /\ WF_vars(Tick)
  /\ WF_vars(SocketReady \/ \E e \in BOOLEAN : SocketFail(e))

\* ------------------------------------------------------------------ claims
\* The requests that are unresolved from the correlator's point of view:
\* the outbound queue followed by the pending map.
Unresolved == queue \o requests

\* C1: request ids start at 1, are strictly increasing in issuance order and are
\* never reused, so no two requests that are in the queue or the pending map at
\* the same time carry the same id.
C1_RequestIdsUnique ==
  /\ Len(handles) > 0 => handles[1].id = 1
  /\ \A i, j \in 1..Len(handles) : i < j => handles[i].id < handles[j].id
  /\ \A i \in 1..Len(handles) : handles[i].id <= requestId
  /\ \A i, j \in 1..Len(Unresolved) : i # j => Unresolved[i].id # Unresolved[j].id

\* One request written and still pending, a later one queued behind a lost connection.
C1_Witness ==
  /\ Len(requests) = 1
  /\ Len(queue) = 1
  /\ requests[1].id = 1
  /\ queue[1].id = 2

\* C2: end() rejects every request that is unresolved when it is called; after
\* end() neither the pending map nor the queue holds a request whose handle is
\* still incomplete.
C2_EndRejectsUnresolved ==
  [][(~ended /\ ended') =>
       \A i \in 1..Len(Unresolved') : handles'[Unresolved'[i].h].st = "rejected"]_vars

\* C3: every run of the close listener of a session that reached `started`
\* starts a new attempt: a new subprocess is spawned and connect() is retried.
C3_CloseRestarts ==
  [][closes' = closes + 1 =>
       /\ spawned' = spawned + 1
       /\ status' = "starting"
       /\ conn'.active]_vars

\* An observe_property for the live entry of k other than the one observe() sent.
Reissued(k) ==
  /\ ObsHas(k)
  /\ \E i \in 1..Len(written) :
       /\ written[i].args = [cmd |-> "observe_property", id |-> ObsGet(k).id, key |-> k]
       /\ \A t \in obsThen : handles[t.h].id # written[i].id

\* C4: an observation that is live when the subprocess closes is registered again
\* with its subscription id once the restart has connected, so that it keeps
\* delivering (unless the entry is removed, the session ended or the restart failed).
C4_ObservationSurvivesRestart ==
  \A k \in Keys :
    [](closes > 0 /\ ObsHas(k) /\ ~ended
         => <>(Reissued(k) \/ ~ObsHas(k) \/ ended \/ status = "errored"))

\* Both callbacks have called observe(k, _) and neither has unsubscribed.
BothObserved(k) ==
  \A cb \in Callbacks : obsCall[<<k, cb>>].st # "none" /\ ~unsub[<<k, cb>>].called

\* The observe_property commands issued for k.
ObserveCommands(k) ==
  {h \in 1..Len(handles) :
     handles[h].args.cmd = "observe_property" /\ handles[h].args.key = k}

\* C5: after observe(k, cb1) and observe(k, cb2) exactly one observe_property
\* command for k has been issued, and every property-change for k that follows
\* the registration invokes both callbacks with the event's data.
C5_OneCommandBothCallbacks ==
  [][\A k \in Keys :
       /\ BothObserved(k)' => Cardinality(ObserveCommands(k)') = 1
       /\ \A d \in Data :
            (BothObserved(k) /\ ObsHas(k) /\ HandleEvent(k, d))
              => (cbLog'.fns = Callbacks /\ cbLog'.data = d)]_vars

\* C6: while an observe_property for k is waiting for its reply, no second
\* registration of k is in flight and no second subscription id is allocated.
C6_NoDuplicateRegistration ==
  \A k \in Keys :
    Cardinality({t \in obsThen : t.key = k /\ handles[t.h].st = "pending"}) <= 1

\* C7: once a call of an unsubscribe function has completed, a later call of it
\* completes without error, issues no command and leaves the registry alone.
C7_UnsubscribeIdempotent ==
  [][\A p \in Pairs :
       (unsub[p].called /\ ~unsub[p].threw /\ Unsubscribe(p[1], p[2]))
         => /\ ~unsub'[p].threw
            /\ observers' = observers
            /\ requestId' = requestId
            /\ written' = written
            /\ queue' = queue]_vars

\* C8: commands queued while the socket is closed are written once the session
\* has reconnected after the subprocess closed (unless the restart fails or the
\* session is ended): the queue does not stay non-empty for ever.
C8_QueuedAreFlushed ==
  [](queue # <<>> /\ closes > 0 /\ ~ended
       => <>(queue = <<>> \/ status = "errored" \/ ended))

\* What every step of handle() on a reply frame leaves alone.
ReplyFrame == sock = "open" /\ UNCHANGED <<lifeVars, cbLog, requestId, queue, written>>

\* C9: a reply whose request_id is pending removes that request alone from the
\* pending map and completes its handle alone: resolved with the reply's data on
\* "success", else rejected with the command and the reported error; no handle is
\* ever completed twice.
C9_ReplyCompletesItsRequest ==
  /\ [][ReplyFrame => \A rid \in 1..(MaxRequests + 1), e \in ErrorTexts, d \in Data :
          (MapHas(requests, rid) /\ HandleReply(rid, e, d)) =>
            LET r == MapGet(requests, rid)
            IN /\ requests' = SelectSeq(requests, LAMBDA v : v # r)
               /\ queue' = queue
               /\ handles[r.h].st = "pending"
               /\ handles'[r.h] =
                    IF e = Success
                      THEN [handles[r.h] EXCEPT !.st = "resolved", !.data = d, !.n = 1]
                      ELSE [handles[r.h] EXCEPT !.st = "rejected", !.err = e, !.n = 1]
               /\ \A h \in 1..Len(handles) : h # r.h => handles'[h] = handles[h]]_vars
  /\ [](\A h \in 1..Len(handles) : handles[h].n <= 1)

\* One request rejected, a repeated reply to it reported and not applied, and the
\* other request still pending.
C9_Witness ==
  \E h1, h2 \in 1..Len(handles) :
    /\ handles[h1].st = "rejected" /\ handles[h1].n = 1
    /\ handles[h1].args.cmd = "get_property"
    /\ handles[h2].st = "pending"
    /\ MapHas(requests, handles[h2].id)
    /\ nErr = 1

\* C10: a reply whose request_id is not pending changes neither the pending map,
\* the queue, the handles nor the registry; it emits "error" exactly when its
\* error field is not "success".  (For each error text e: the step has that
\* effect, or it is no handle() step of an unmatched reply carrying e.)
C10_UnmatchedReply ==
  [][ReplyFrame => \A e \in ErrorTexts :
       \/ /\ requests' = requests
          /\ queue' = queue
          /\ handles' = handles
          /\ observers' = observers
          /\ nErr' = IF e = Success THEN nErr ELSE nErr + 1
       \/ \A rid \in 1..(MaxRequests + 1), d \in Data :
            MapHas(requests, rid) \/ ~HandleReply(rid, e, d)]_vars

\* An unmatched failure reply was reported while a request was pending.
C10_Witness ==
  /\ nErr = 1
  /\ Len(requests) = 1
  /\ \A h \in 1..Len(handles) : handles[h].st = "pending"

\* C11: of a chunk with a line that is not JSON only that line is discarded;
\* every other non-empty line of the chunk is handed to handle(), in order, and
\* so are the lines of every later chunk.
C11_OnlyMalformedLineDropped ==
  dispatched = SelectSeq(chunk, LAMBDA l : l # "" /\ l # Malformed)

\* ------------------------------------------------------------- connect()
\* A "close" of the socket while connect() listens.
ConnectClose == sock = "opening" /\ sock' = "closed" /\ conn.active

\* C12: a socket close with the deadline not yet passed schedules one retry and
\* leaves connect() pending; the first close after the deadline rejects connect()
\* with the last socket error if one was seen and with the timeout error
\* otherwise, and schedules no retry.  While connect() is pending an attempt is
\* in flight or a retry is scheduled, and when every attempt ends (ready or
\* close) connect() does not stay pending for ever: it resolves or rejects.
C12_ConnectRetriesThenRejects ==
  /\ [][ConnectClose =>
          \A e \in BOOLEAN : SocketFail(e) =>
            IF TimedOut(conn)
              THEN /\ connEnd' = (IF conn.error \/ e THEN "error" ELSE "timeout")
                   /\ ~conn'.active
                   /\ ~conn'.timer
              ELSE /\ connEnd' = "pending"
                   /\ conn'.active
                   /\ conn'.timer
                   /\ conn'.error = (conn.error \/ e)
                   /\ status' = status]_vars
  /\ [](connEnd = "pending" => (sock = "opening") # conn.timer)
  /\ []<>(connEnd # "pending")

\* connect() was rejected with the socket error of an earlier attempt.
C12_Witness ==
  /\ connEnd = "error"
  /\ status = "errored"
  /\ startErr = "connect"
  /\ sock = "closed"

\* --------------------------------------------------------------- start()
\* The subprocess ends the pending start: its "close" or its "error" event.
ProcessFailsStart == startWait /\ ~startWait' /\ sock' = sock /\ conn' = conn

StartFailed ==
  /\ status' = "errored"
  /\ returned' = (IF startEmit THEN returned ELSE "rejected")
  /\ written' = written
  /\ requests' = requests
  /\ nRestarted' = nRestarted

\* C13 as stated: a subprocess that closes or emits an error before connect()
\* resolved fails the start with an error carrying stderr, exit code and signal;
\* start() rejects, the status is errored, nothing is written, "restarted" is not
\* emitted; and the first successful start emits no "restarted".
C13_ProcessFailureIsSpawnError ==
  /\ [][ProcessFailsStart => startErr' = "closed" /\ StartFailed]_vars
  /\ [](spawned <= 1 => nRestarted = 0)

\* C13, amended: the error carries stderr, exit code and signal when the
\* subprocess closed; when the subprocess emitted an error, start() rejects with
\* that error as it was emitted.  The rest as stated.
C13_ProcessFailureFailsStart ==
  /\ [][ProcessFailsStart =>
          /\ ProcClose => startErr' = "closed"
          /\ (\E gone \in BOOLEAN : ProcError(gone)) => startErr' = "process"
          /\ startErr' \in {"closed", "process"}
          /\ StartFailed]_vars
  /\ [](spawned <= 1 => nRestarted = 0)

\* The first start failed on an error the subprocess emitted.
C13_Witness ==
  /\ status = "errored"
  /\ startErr = "process"
  /\ returned = "rejected"
  /\ written = <<>>
  /\ nRestarted = 0

\* ------------------------------------------------------------------ end()
\* C14: over a session no subprocess is sent more than one kill signal; once
\* end() has run, another end() changes nothing and sends nothing; and after
\* end() the exit of the subprocess runs no close listener and spawns nothing.
C14_EndIdempotentAndFinal ==
  /\ [](killCalls <= spawned)
  /\ [](ended => EndProc(proc) = proc /\ EndKills(proc) = 0)
  /\ [][ended => spawned' = spawned /\ closes' = closes /\ status' = status]_vars

\* end() killed the running subprocess, and it has exited since.
C14_Witness ==
  /\ ended
  /\ killCalls = 1
  /\ proc.killed
  /\ ~proc.alive
  /\ closes = 0
  /\ spawned = 1

\* --------------------------------------------------------- request tracking
InQueue(h) == \E i \in 1..Len(queue) : queue[i].h = h
InPending(h) == \E i \in 1..Len(requests) : requests[i].h = h

\* C15: a request whose promise is still pending is in the outbound queue or in
\* the pending map; a request whose promise is settled is in neither.
C15_UnsettledAreTracked ==
  \A h \in 1..Len(handles) :
    IF handles[h].st = "pending"
      THEN InQueue(h) \/ InPending(h)
      ELSE ~InQueue(h) /\ ~InPending(h)

\* One request settled and gone, the next one waiting in the queue.
C15_Witness ==
  /\ Len(handles) = 2
  /\ handles[1].st = "resolved"
  /\ ~InQueue(1) /\ ~InPending(1)
  /\ handles[2].st = "pending"
  /\ InQueue(2)

\* --------------------------------------------------------- one subprocess
LiveProcs == orphans + (IF proc.exists /\ proc.alive THEN 1 ELSE 0)

\* C17: at most one subprocess runs at any time; a spawn goes with the status
\* starting, leaves no earlier subprocess running and finds no connect() loop
\* active; a start() the close listener calls while the status is not stopped
\* spawns nothing and starts no connect() loop.
C17_OneSubprocess ==
  /\ [](LiveProcs <= 1)
  /\ [][spawned' # spawned =>
          /\ spawned' = spawned + 1
          /\ status' = "starting"
          /\ orphans' = orphans
          /\ ~conn.active]_vars
  /\ [][closes' # closes /\ CloseStatus # "stopped" =>
          spawned' = spawned /\ conn' = conn /\ sock' = sock]_vars

\* The close listener called start() on a session that was not stopped.
C17_Witness ==
  /\ closes = 1
  /\ spawned = 1
  /\ status # "stopped"
  /\ LiveProcs = 0

\* ---------------------------------------------------- the observation registry
\* C18: while the registry holds an entry for a key, no step gives the entry
\* another subscription id, and no step other than an unsubscribe call takes a
\* callback out of it; two entries never carry the same subscription id.
C18_SubscriptionIdStable ==
  /\ [][\A k \in Keys :
          ObsHas(k) /\ ObsHas(k)' =>
            /\ ObsGet(k)'.id = ObsGet(k).id
            /\ unsub' = unsub => ObsGet(k).fns \subseteq ObsGet(k)'.fns]_vars
  /\ [](\A i, j \in 1..Len(observers) : observers[i].id = observers[j].id => i = j)

\* A step of the unsubscribe function.
UnsubscribeFrame ==
  /\ unsub' # unsub \/ observers' # observers
  /\ UNCHANGED <<lifeVars, observeId, obsThen, obsCall, cbLog, nErr>>

\* C19: unobserve(k, cb) with an entry for k takes cb out of the entry and does
\* not throw; if callbacks remain the entry stays and no command is issued; if
\* none remains the entry is deleted and one unobserve_property command with the
\* entry's subscription id is issued.  When that command is rejected an "error"
\* notification is emitted and the unsubscribe call is not affected.
C19_UnobserveLiveEntry ==
  /\ [][UnsubscribeFrame =>
          \A k \in Keys, cb \in Callbacks :
            Unsubscribe(k, cb) /\ ObsHas(k) =>
              LET observer == ObsGet(k)
                  rest == observer.fns \ {cb}
              IN /\ ~unsub'[<<k, cb>>].threw
                 /\ IF rest # {}
                      THEN /\ ObsHas(k)'
                           /\ ObsGet(k)' = [observer EXCEPT !.fns = rest]
                           /\ UNCHANGED reqVars
                      ELSE /\ ~ObsHas(k)'
                           /\ requestId' = requestId + 1
                           /\ Len(handles') = Len(handles) + 1
                           /\ handles'[Len(handles')].args.cmd = "unobserve_property"
                           /\ handles'[Len(handles')].args.id = observer.id
                           /\ handles'[Len(handles')].st = "pending"
                           /\ Len(written') + Len(queue') = Len(written) + Len(queue) + 1]_vars
  /\ [][ReplyFrame =>
          \A h \in 1..Len(handles) :
            /\ handles[h].args.cmd = "unobserve_property"
            /\ handles[h].st = "pending"
            /\ handles'[h].st = "rejected"
            => nErr' = nErr + 1 /\ unsub' = unsub]_vars

\* The last callback was unsubscribed, the entry is gone, and the player
\* refused the unobserve_property command.
C19_Witness ==
  /\ ~ObsHas("volume")
  /\ unsub[<<"volume", "cb1">>] = [called |-> TRUE, threw |-> FALSE]
  /\ nErr = 1
  /\ \E h \in 1..Len(handles) :
       /\ handles[h].args.cmd = "unobserve_property"
       /\ handles[h].args.id = 1
       /\ handles[h].st = "rejected"

\* C20: a property-change event invokes no callback whose unsubscribe function
\* has been called, and no registry entry holds such a callback (also when the
\* unsubscribe call came before the reply to observe_property).
C20_UnsubscribedNeverInvoked ==
  /\ [][\A k \in Keys, d \in Data :
          HandleEvent(k, d) => \A cb \in cbLog'.fns : ~unsub[<<k, cb>>].called]_vars
  /\ [](\A p \in Pairs :
          unsub[p].called => ~(ObsHas(p[1]) /\ p[2] \in ObsGet(p[1]).fns))

====
